---- MODULE Spec2Model ----
(***************************************************************************)
(* i18n-gen: extraction of translation keys from .proto files and the      *)
(* regeneration of the per-language catalogs (src/main.go).                *)
(*                                                                         *)
(* A Go string is a sequence of one-character strings, a text file is the  *)
(* sequence of its lines (what bufio.Scanner yields), a Go map is a        *)
(* function whose DOMAIN is the set of keys present.                       *)
(***************************************************************************)
EXTENDS Integers, Sequences, FiniteSets, TLC

\* ------------------------------------------------------------------ bounds
\* Number of runs of the program in one behaviour.
MaxRuns == 2
\* Number of .proto files the walk finds.
MaxFiles == 2

\* ----------------------------------------------------------- Go's strings
Quote == "\""
Space == " "

\* The literals of src/main.go.
Marker == <<"(","b","u","f",".","v","a","l","i","d","a","t","e",".",
            "f","i","e","l","d",")",".","c","e","l">>
IdPrefix == <<"i","d",":">>
MessagePrefix == <<"m","e","s","s","a","g","e",":">>
CloseBracket == <<"}","]",";">>
CloseComma == <<"}",",">>
OtherPrefix == <<"o","t","h","e","r"," ","="," ">>

\* s[lo:hi] with Go's zero-based, half-open bounds.
Slice(s, lo, hi) == SubSeq(s, lo + 1, hi)

HasPrefix(s, p) == Len(s) >= Len(p) /\ SubSeq(s, 1, Len(p)) = p

HasSuffix(s, p) == Len(s) >= Len(p) /\ SubSeq(s, Len(s) - Len(p) + 1, Len(s)) = p

Contains(s, p) == \E i \in 0..(Len(s) - Len(p)) : SubSeq(s, i + 1, i + Len(p)) = p

\* strings.Index(s, c) and strings.LastIndex(s, c): zero-based, -1 when absent.
Index(s, c) ==
    IF \E i \in 1..Len(s) : s[i] = c
    THEN (CHOOSE i \in 1..Len(s) : s[i] = c /\ \A j \in 1..(i - 1) : s[j] # c) - 1
    ELSE -1

LastIndex(s, c) ==
    IF \E i \in 1..Len(s) : s[i] = c
    THEN (CHOOSE i \in 1..Len(s) : s[i] = c /\ \A j \in (i + 1)..Len(s) : s[j] # c) - 1
    ELSE -1

\* strings.Trim(s, cutset) for a one-character cutset: every leading and
\* every trailing occurrence of c is removed.
RECURSIVE TrimLeft(_, _)
TrimLeft(s, c) == IF s # <<>> /\ Head(s) = c THEN TrimLeft(Tail(s), c) ELSE s

RECURSIVE TrimRight(_, _)
TrimRight(s, c) ==
    IF s # <<>> /\ s[Len(s)] = c THEN TrimRight(SubSeq(s, 1, Len(s) - 1), c) ELSE s

Trim(s, c) == TrimRight(TrimLeft(s, c), c)

TrimSpace(s) == Trim(s, Space)

\* ---------------------------------------------------------------- Go's maps
EmptyMap == [k \in {} |-> <<>>]

\* m[k] of a map[string]string: the zero value "" for an absent key.
MapGet(m, k) == IF k \in DOMAIN m THEN m[k] ELSE <<>>

MapPut(m, k, v) == [x \in (DOMAIN m) \cup {k} |-> IF x = k THEN v ELSE m[x]]

\* ------------------------------------------------- catalogs (generateTOML)
\* A catalog path: no file there, or a file and its lines.
NoFile == [exists |-> FALSE, lines |-> <<>>]

File(lines) == [exists |-> TRUE, lines |-> lines]

\* fmt.Sprintf("[%s]\nother = \"%s\"\n\n", entry, existingMessage) as lines.
Block(entry, text) ==
    << <<"[">> \o entry \o <<"]">>, OtherPrefix \o <<Quote>> \o text \o <<Quote>>, <<>> >>

\* Mutant of LoadLines: the quotes around the value are not trimmed.
RECURSIVE LoadLines_KeepQuotes(_, _, _)
LoadLines_KeepQuotes(lines, currentKey, entries) ==
    IF lines = <<>> THEN entries
    ELSE LET line == TrimSpace(Head(lines)) IN
         IF HasPrefix(line, <<"[">>) /\ HasSuffix(line, <<"]">>)
         THEN LoadLines_KeepQuotes(Tail(lines), Slice(line, 1, Len(line) - 1), entries)
         ELSE IF HasPrefix(line, OtherPrefix) /\ currentKey # <<>>
         THEN LoadLines_KeepQuotes(Tail(lines), currentKey,
                                   MapPut(entries, currentKey,
                                          Slice(line, Len(OtherPrefix), Len(line))))
         ELSE LoadLines_KeepQuotes(Tail(lines), currentKey, entries)

\* loadExistingTOML's scanner loop over the lines of the file.
RECURSIVE LoadLines(_, _, _)
LoadLines(lines, currentKey, entries) ==
    IF lines = <<>> THEN entries
    ELSE LET line == TrimSpace(Head(lines)) IN
         IF HasPrefix(line, <<"[">>) /\ HasSuffix(line, <<"]">>)
         THEN LoadLines(Tail(lines), Slice(line, 1, Len(line) - 1), entries)
         ELSE IF HasPrefix(line, OtherPrefix) /\ currentKey # <<>>
         THEN LoadLines(Tail(lines), currentKey,
                        MapPut(entries, currentKey,
                               Trim(Slice(line, Len(OtherPrefix), Len(line)), Quote)))
         ELSE LoadLines(Tail(lines), currentKey, entries)

\* loadExistingTOML: a missing file is an empty map.
loadExistingTOML(file) ==
    IF ~file.exists THEN EmptyMap ELSE LoadLines(file.lines, <<>>, EmptyMap)

\* generateTOML's first loop: the existing value of every entry, or "".
RECURSIVE MergeExisting(_, _, _)
MergeExisting(entries, existingEntries, entryMap) ==
    IF entries = <<>> THEN entryMap
    ELSE LET entry == Head(entries) IN
         MergeExisting(Tail(entries), existingEntries,
                       MapPut(entryMap, entry,
                              IF entry \in DOMAIN existingEntries
                              THEN existingEntries[entry] ELSE <<>>))

\* Mutant of EntryText: the fallback to the default message is missing (the
\* older generateTOML, which had no messages).
EntryText_NoDefault(entry, entryMap, messages) == MapGet(entryMap, entry)

\* The text generateTOML writes for one entry: the merged value, or the
\* default message when the merged value is empty.
EntryText(entry, entryMap, messages) ==
    LET existingMessage == MapGet(entryMap, entry) IN
    IF existingMessage = <<>> THEN MapGet(messages, entry) ELSE existingMessage

\* generateTOML's second loop: the buffer, one block per entry.
RECURSIVE WriteBlocks(_, _, _)
WriteBlocks(entries, entryMap, messages) ==
    IF entries = <<>> THEN <<>>
    ELSE Block(Head(entries), EntryText(Head(entries), entryMap, messages))
         \o WriteBlocks(Tail(entries), entryMap, messages)

\* Mutant of TOMLContent: the buffer is appended to the file (O_APPEND
\* instead of a truncating write).
TOMLContent_Append(entries, messages, file) ==
    file.lines
    \o WriteBlocks(entries, MergeExisting(entries, loadExistingTOML(file), EmptyMap), messages)

\* The lines generateTOML writes over the catalog `file`.
TOMLContent(entries, messages, file) ==
    WriteBlocks(entries, MergeExisting(entries, loadExistingTOML(file), EmptyMap), messages)

\* ------------------------------------------------- extraction (parseProto)
\* A .proto file: whether it can be opened and parsed, the enums the parser's
\* walk visits (name and field names, in declaration order) and the lines
\* the second pass scans.
Enum(name, fields) == [name |-> name, fields |-> fields]

ProtoFile(ok, enums, lines) == [ok |-> ok, enums |-> enums, lines |-> lines]

\* The proto.WithEnum handler: the fields of every enum whose name passes
\* the prefix and suffix filters.
RECURSIVE EnumEntries(_, _, _)
EnumEntries(enums, enumPrefix, enumSuffix) ==
    IF enums = <<>> THEN <<>>
    ELSE LET e == Head(enums)
             rest == EnumEntries(Tail(enums), enumPrefix, enumSuffix) IN
         IF enumPrefix # <<>> /\ ~HasPrefix(e.name, enumPrefix) THEN rest
         ELSE IF enumSuffix # <<>> /\ ~HasSuffix(e.name, enumSuffix) THEN rest
         ELSE e.fields \o rest

\* The value between the first and the last quote of a line, "" when the
\* guard idStart > 0 && idEnd > idStart fails.
Quoted(nextLine) ==
    LET start == Index(nextLine, Quote) + 1
        end == LastIndex(nextLine, Quote) IN
    IF start > 0 /\ end > start THEN Slice(nextLine, start, end) ELSE <<>>

\* One scanner.Scan() of the second pass, in the outer loop (inBlock FALSE)
\* or in the inner loop (inBlock TRUE). st holds inBlock, id, message,
\* entries and messages.
ScanLine(st, rawLine) ==
    LET nextLine == TrimSpace(rawLine) IN
    IF ~st.inBlock
    THEN IF Contains(rawLine, Marker)
         THEN [st EXCEPT !.inBlock = TRUE, !.id = <<>>, !.message = <<>>]
         ELSE st
    ELSE IF HasPrefix(nextLine, IdPrefix)
    THEN IF Quoted(nextLine) # <<>>
         THEN [st EXCEPT !.id = Quoted(nextLine),
                         !.entries = Append(st.entries, Quoted(nextLine))]
         ELSE st
    ELSE IF HasPrefix(nextLine, MessagePrefix)
    THEN IF Quoted(nextLine) # <<>>
         THEN [st EXCEPT !.message = Quoted(nextLine)]
         ELSE st
    ELSE IF HasPrefix(nextLine, CloseBracket) \/ HasPrefix(nextLine, CloseComma)
    THEN [st EXCEPT !.inBlock = FALSE, !.id = <<>>, !.message = <<>>,
                    !.messages = IF st.id # <<>>
                                 THEN MapPut(st.messages, st.id, st.message)
                                 ELSE st.messages]
    ELSE st

RECURSIVE ScanLines(_, _)
ScanLines(st, lines) ==
    IF lines = <<>> THEN st ELSE ScanLines(ScanLine(st, Head(lines)), Tail(lines))

\* parseProto: an error, or the entries (enum fields, then validation ids)
\* and the messages of the file.
parseProto(file, enumPrefix, enumSuffix) ==
    IF ~file.ok THEN [err |-> TRUE, entries |-> <<>>, messages |-> EmptyMap]
    ELSE LET st == ScanLines([inBlock |-> FALSE, id |-> <<>>, message |-> <<>>,
                              entries |-> EnumEntries(file.enums, enumPrefix, enumSuffix),
                              messages |-> EmptyMap], file.lines) IN
         [err |-> FALSE, entries |-> st.entries, messages |-> st.messages]

\* Mutant of AddEntries: seenEntries is consulted but never set.
RECURSIVE AddEntries_NeverSeen(_, _, _)
AddEntries_NeverSeen(agg, entries, messages) ==
    IF entries = <<>> THEN agg
    ELSE LET entry == Head(entries) IN
         IF entry \in agg.seenEntries
         THEN AddEntries_NeverSeen(agg, Tail(entries), messages)
         ELSE AddEntries_NeverSeen([seenEntries |-> agg.seenEntries,
                                    allEntries |-> Append(agg.allEntries, entry),
                                    allMessages |-> MapPut(agg.allMessages, entry,
                                                           MapGet(messages, entry))],
                                   Tail(entries), messages)

\* main's inner loop: the entries of one file added to the aggregate, each
\* unseen entry with the message its file gives it.
RECURSIVE AddEntries(_, _, _)
AddEntries(agg, entries, messages) ==
    IF entries = <<>> THEN agg
    ELSE LET entry == Head(entries) IN
         IF entry \in agg.seenEntries
         THEN AddEntries(agg, Tail(entries), messages)
         ELSE AddEntries([seenEntries |-> agg.seenEntries \cup {entry},
                          allEntries |-> Append(agg.allEntries, entry),
                          allMessages |-> MapPut(agg.allMessages, entry,
                                                 MapGet(messages, entry))],
                         Tail(entries), messages)

EmptyAgg == [seenEntries |-> {}, allEntries |-> <<>>, allMessages |-> EmptyMap]

\* ------------------------------------------------------------------ inputs
KeyA == <<"A">>
KeyB == <<"B">>
KeyC == <<"C">>
\* The name of the enum value a developer adds between two runs.
NewKey == <<"N">>
\* A key of a prior catalog that no source file defines.
OrphanKey == <<"Z">>

MsgPlain == <<"m">>
\* The text of  message: "n\""  between its first and its last quote.
MsgEscaped == <<"n", "\\", Quote>>

Indent == <<Space, Space>>
MarkerLine == <<"s", Space, "=", Space, "1", Space, "[">> \o Marker \o <<Space, "=", Space, "{">>
IdLine(k) == Indent \o IdPrefix \o <<Space, Quote>> \o k \o <<Quote, ",">>
MessageLine(m) == Indent \o MessagePrefix \o <<Space, Quote>> \o m \o <<Quote, ",">>
ExpressionLine == Indent \o <<"e", "x", "p", "r", ":", Space, Quote, "t", Quote>>

\* A validation block as it stands in a .proto file, closed by `close`.
ValidationBlock(k, m, close) ==
    <<MarkerLine, IdLine(k), MessageLine(m), ExpressionLine, close>>

EnumChoices ==
    { <<Enum(<<"F", "E">>, <<KeyA, KeyB>>)>>,
      <<Enum(<<"G", "E">>, <<KeyC>>), Enum(<<"F", "S">>, <<KeyB, KeyB>>)>> }

LineChoices ==
    { <<>>,
      ValidationBlock(KeyA, MsgPlain, Indent \o CloseComma)
          \o ValidationBlock(KeyA, MsgEscaped, CloseBracket),
      ValidationBlock(KeyC, MsgEscaped, CloseBracket) }

BadFile == ProtoFile(FALSE, <<>>, <<>>)

FileSet == {BadFile} \cup {ProtoFile(TRUE, e, l) : e \in EnumChoices, l \in LineChoices}

SeqsUpTo(S, n) == UNION {[1..k -> S] : k \in 0..n}

FlagChoices == { <<(<<>>), (<<>>)>>, << <<"F">>, <<"E">> >> }

\* The -L flag split at its commas: "en, ,zh " .
En == <<"e", "n">>
Zh == <<"z", "h">>
langList == <<En, <<Space>>, <<Space>> \o Zh \o <<Space>> >>

LangNames == {TrimSpace(langList[i]) : i \in 1..Len(langList)} \ {<<>>}

\* What a translator may have typed between the quotes of a value line.
HumanTexts == {<<>>, <<"a">>, <<"a", "\\", Quote>>}

RECURSIVE Render(_)
Render(es) == IF es = <<>> THEN <<>> ELSE Block(Head(es)[1], Head(es)[2]) \o Render(Tail(es))

\* Number of blocks of a prior catalog.
MaxPrior == 2

\* Files no run of this program wrote: a value line before any header, an
\* indented header, an unquoted value, a second value line for one key.
OddCatalogs ==
    { File(<< OtherPrefix \o <<Quote, "a", Quote>>,
         Indent \o <<"[">> \o KeyA \o <<"]">>,
         OtherPrefix \o <<"a">>,
         <<"#">>,
         <<"[">> \o KeyB \o <<"]">>,
         OtherPrefix \o <<Quote, "a", Quote>>,
         OtherPrefix \o <<Quote, Quote>> >>) }

PriorCatalogs ==
    {NoFile} \cup OddCatalogs
    \cup {File(Render(es)) : es \in SeqsUpTo({KeyA, KeyB, OrphanKey} \X HumanTexts, MaxPrior)}

SomeCatalog == File(Block(KeyB, <<"a">>) \o Block(OrphanKey, <<"a">>) \o Block(KeyA, <<>>))

FewCatalogs == {NoFile, SomeCatalog}

SomeSources ==
    <<ProtoFile(TRUE, <<Enum(<<"F", "E">>, <<KeyB>>)>>,
                ValidationBlock(KeyA, MsgPlain, CloseBracket)
                    \o ValidationBlock(KeyC, MsgEscaped, CloseBracket))>>

FewSources ==
    { <<>>,
      <<BadFile>>,
      SomeSources,
      <<ProtoFile(TRUE, <<>>, ValidationBlock(KeyA, MsgPlain, CloseBracket)),
        BadFile,
        ProtoFile(TRUE, <<Enum(<<"F", "E">>, <<KeyB>>)>>, <<>>)>> }

\* I/O faults (walk, mkdir, open, write) injected in one behaviour.
MaxFaults == 1

\* An absent record: lastParse, prev and added hold at most one.
None == <<>>

Some(r) == <<r>>

\* ------------------------------------------------------------------- state
VARIABLES
    sources,       \* the .proto files of the source directory, in walk order
    enumPrefix,    \* -prefix
    enumSuffix,    \* -suffix
    catalogs,      \* language -> lines of <outputDir>/<lang>.toml, or NoFile
    outDirExists,  \* whether the output directory exists
    faults,        \* I/O faults still to be injected
    pc,            \* "idle" (no run in progress), "parse", "gen"
    protoFiles,    \* main: the paths found, as indices into sources
    fileIdx,       \* main: position of the parse loop in protoFiles
    allEntries,    \* main
    allMessages,   \* main
    seenEntries,   \* main, the keys mapped to true
    langIdx,       \* main: position of the generation loop in langList
    runs,          \* runs finished
    outcome,       \* how the last run ended
    lastParse,     \* the file and the result of the last parseProto call
    genOK,         \* languages whose generateTOML returned nil in this run
    genFailed,     \* languages whose generateTOML returned an error in this run
    start,         \* catalogs and outDirExists when this run started
    prev,          \* allEntries, genOK and outcome of the run before this one
    added          \* the enum value added between the runs, or None

vars == <<sources, enumPrefix, enumSuffix, catalogs, outDirExists, faults, pc,
          protoFiles, fileIdx, allEntries, allMessages, seenEntries, langIdx,
          runs, outcome, lastParse, genOK, genFailed, start, prev, added>>

inputs == <<sources, enumPrefix, enumSuffix>>
loopVars == <<protoFiles, fileIdx, allEntries, allMessages, seenEntries, langIdx>>

InitRun ==
    /\ outDirExists = (\E l \in LangNames : catalogs[l] # NoFile)
    /\ pc = "idle"
    /\ protoFiles = <<>>
    /\ fileIdx = 1
    /\ allEntries = <<>>
    /\ allMessages = EmptyMap
    /\ seenEntries = {}
    /\ langIdx = 1
    /\ runs = 0
    /\ outcome = "none"
    /\ lastParse = None
    /\ genOK = {}
    /\ genFailed = {}
    /\ start = [catalogs |-> catalogs, outDirExists |-> outDirExists]
    /\ prev = None
    /\ added = None

\* Many source trees, no catalog yet.
InitSources ==
    /\ sources \in SeqsUpTo(FileSet, MaxFiles)
    /\ \E f \in FlagChoices : enumPrefix = f[1] /\ enumSuffix = f[2]
    /\ catalogs = [l \in LangNames |-> NoFile]
    /\ faults = 0

\* Many prior catalogs of one language, one source tree.
InitCatalogs ==
    /\ sources = SomeSources
    /\ enumPrefix = <<>> /\ enumSuffix = <<>>
    /\ \E c \in PriorCatalogs :
          catalogs = [l \in LangNames |-> IF l = En THEN c ELSE SomeCatalog]
    /\ faults = 0

\* I/O faults.
InitFaults ==
    /\ sources \in FewSources
    /\ enumPrefix = <<>> /\ enumSuffix = <<>>
    /\ \E c \in FewCatalogs, d \in FewCatalogs :
          catalogs = [l \in LangNames |-> IF l = En THEN c ELSE d]
    /\ faults = MaxFaults

Init == (InitSources \/ InitCatalogs \/ InitFaults) /\ InitRun

\* ----------------------------------------------------------------- actions
\* The end of main: the run is over.
Return(how) ==
    /\ pc' = "idle"
    /\ runs' = runs + 1
    /\ outcome' = how

\* main, lines 27-56: the walk over the source directory.
Discover ==
    /\ pc = "idle"
    /\ runs < MaxRuns
    /\ start' = [catalogs |-> catalogs, outDirExists |-> outDirExists]
    /\ prev' = IF runs = 0 THEN None
               ELSE Some([allEntries |-> allEntries, genOK |-> genOK, outcome |-> outcome])
    /\ genOK' = {}
    /\ genFailed' = {}
    /\ lastParse' = None
    /\ fileIdx' = 1
    /\ langIdx' = 1
    /\ allEntries' = <<>>
    /\ allMessages' = EmptyMap
    /\ seenEntries' = {}
    /\ UNCHANGED <<inputs, catalogs, outDirExists, added>>
    /\ \/ /\ faults > 0
          /\ faults' = faults - 1
          /\ protoFiles' = <<>>
          /\ Return("walk failed")
       \/ /\ sources = <<>>
          /\ protoFiles' = <<>>
          /\ Return("no files")
          /\ UNCHANGED faults
       \/ /\ sources # <<>>
          /\ protoFiles' = [i \in 1..Len(sources) |-> i]
          /\ pc' = "parse"
          /\ UNCHANGED <<faults, runs, outcome>>

\* main, lines 57-72: one iteration of the loop over protoFiles.
ParseFile ==
    /\ pc = "parse"
    /\ fileIdx <= Len(protoFiles)
    /\ \E r \in {parseProto(sources[protoFiles[fileIdx]], enumPrefix, enumSuffix)} :
       /\ lastParse' = Some([file |-> protoFiles[fileIdx], result |-> r])
       /\ \/ /\ r.err
             /\ UNCHANGED <<allEntries, allMessages, seenEntries>>
          \/ /\ ~r.err
             /\ \E agg \in {AddEntries([seenEntries |-> seenEntries,
                                          allEntries |-> allEntries,
                                          allMessages |-> allMessages],
                                         r.entries, r.messages)} :
                   /\ allEntries' = agg.allEntries
                   /\ allMessages' = agg.allMessages
                   /\ seenEntries' = agg.seenEntries
    /\ fileIdx' = fileIdx + 1
    /\ UNCHANGED <<inputs, catalogs, outDirExists, faults, pc, protoFiles, langIdx,
                   runs, outcome, genOK, genFailed, start, prev, added>>

\* Mutant of MakeOutputDir: os.MkdirAll is called before the check for an
\* empty key list.
MakeOutputDir_MkdirFirst ==
    /\ pc = "parse"
    /\ fileIdx > Len(protoFiles)
    /\ \/ /\ allEntries = <<>>
          /\ outDirExists' = TRUE
          /\ Return("no entries")
          /\ UNCHANGED faults
       \/ /\ allEntries # <<>>
          /\ faults > 0
          /\ faults' = faults - 1
          /\ Return("mkdir failed")
          /\ UNCHANGED outDirExists
       \/ /\ allEntries # <<>>
          /\ outDirExists' = TRUE
          /\ pc' = "gen"
          /\ UNCHANGED <<faults, runs, outcome>>
    /\ UNCHANGED <<inputs, catalogs, loopVars, lastParse, genOK, genFailed, start, prev,
                   added>>

\* main, lines 74-83: nothing to generate, or the output directory is made.
MakeOutputDir ==
    /\ pc = "parse"
    /\ fileIdx > Len(protoFiles)
    /\ \/ /\ allEntries = <<>>
          /\ Return("no entries")
          /\ UNCHANGED <<outDirExists, faults>>
       \/ /\ allEntries # <<>>
          /\ faults > 0
          /\ faults' = faults - 1
          /\ Return("mkdir failed")
          /\ UNCHANGED outDirExists
       \/ /\ allEntries # <<>>
          /\ outDirExists' = TRUE
          /\ pc' = "gen"
          /\ UNCHANGED <<faults, runs, outcome>>
    /\ UNCHANGED <<inputs, catalogs, loopVars, lastParse, genOK, genFailed, start, prev,
                   added>>

\* Mutant of GenerateLang: a failed generateTOML ends the run (return instead
\* of continue, as in the single-file version of main).
GenerateLang_ReturnOnError ==
    /\ pc = "gen"
    /\ langIdx <= Len(langList)
    /\ LET lang == TrimSpace(langList[langIdx]) IN
       \/ /\ lang = <<>>
          /\ langIdx' = langIdx + 1
          /\ UNCHANGED <<catalogs, faults, genOK, genFailed, pc, runs, outcome>>
       \/ /\ lang # <<>>
          /\ catalogs' = [catalogs EXCEPT ![lang] = File(TOMLContent(allEntries, allMessages, @))]
          /\ genOK' = genOK \cup {lang}
          /\ langIdx' = langIdx + 1
          /\ UNCHANGED <<faults, genFailed, pc, runs, outcome>>
       \/ /\ lang # <<>>
          /\ faults > 0
          /\ faults' = faults - 1
          /\ \/ UNCHANGED catalogs
             \/ catalogs' = [catalogs EXCEPT ![lang] = File(<<>>)]
          /\ genFailed' = genFailed \cup {lang}
          /\ Return("generated")
          /\ UNCHANGED <<genOK, langIdx>>
    /\ UNCHANGED <<inputs, outDirExists, protoFiles, fileIdx, allEntries, allMessages,
                   seenEntries, lastParse, start, prev, added>>

\* main, lines 87-98: one iteration of the loop over langList. generateTOML
\* fails when the catalog cannot be opened (the file is left as it is) or
\* written (the file is left as it is, or created or truncated and empty).
GenerateLang ==
    /\ pc = "gen"
    /\ langIdx <= Len(langList)
    /\ LET lang == TrimSpace(langList[langIdx]) IN
       \/ /\ lang = <<>>
          /\ UNCHANGED <<catalogs, faults, genOK, genFailed>>
       \/ /\ lang # <<>>
          /\ catalogs' = [catalogs EXCEPT ![lang] = File(TOMLContent(allEntries, allMessages, @))]
          /\ genOK' = genOK \cup {lang}
          /\ UNCHANGED <<faults, genFailed>>
       \/ /\ lang # <<>>
          /\ faults > 0
          /\ faults' = faults - 1
          /\ \/ UNCHANGED catalogs
             \/ catalogs' = [catalogs EXCEPT ![lang] = File(<<>>)]
          /\ genFailed' = genFailed \cup {lang}
          /\ UNCHANGED genOK
    /\ langIdx' = langIdx + 1
    /\ UNCHANGED <<inputs, outDirExists, pc, protoFiles, fileIdx, allEntries, allMessages,
                   seenEntries, runs, outcome, lastParse, start, prev, added>>

\* main, line 99: the loop over langList is over.
Finish ==
    /\ pc = "gen"
    /\ langIdx > Len(langList)
    /\ Return("generated")
    /\ UNCHANGED <<inputs, catalogs, outDirExists, faults, loopVars, lastParse, genOK,
                   genFailed, start, prev, added>>

InsertAt(s, p, v) == SubSeq(s, 1, p) \o <<v>> \o SubSeq(s, p + 1, Len(s))

\* Between two runs a developer adds one value, NewKey, to an enum of a file.
AddEnumValue ==
    /\ pc = "idle"
    /\ runs = 1
    /\ added = None
    /\ \E f \in 1..Len(sources) :
         \E e \in 1..Len(sources[f].enums) :
           \E p \in 0..Len(sources[f].enums[e].fields) :
             /\ sources[f].ok
             /\ sources' = [sources EXCEPT ![f].enums[e].fields = InsertAt(@, p, NewKey)]
             /\ added' = Some([file |-> f, enum |-> e, pos |-> p])
    /\ UNCHANGED <<enumPrefix, enumSuffix, catalogs, outDirExists, faults, pc, loopVars,
                   runs, outcome, lastParse, genOK, genFailed, start, prev>>

Next == Discover \/ ParseFile \/ MakeOutputDir \/ GenerateLang \/ Finish \/ AddEnumValue

Spec == Init /\ [][Next]_vars

\* ------------------------------------------------------------------ claims
Range(s) == {s[i] : i \in 1..Len(s)}

\* The first position of v in s.
Pos(s, v) == CHOOSE i \in 1..Len(s) : s[i] = v /\ \A j \in 1..(i - 1) : s[j] # v

NoRepeats(s) == \A i, j \in 1..Len(s) : s[i] = s[j] => i = j

HeaderLine(k) == <<"[">> \o k \o <<"]">>

ValueLine(t) == OtherPrefix \o <<Quote>> \o t \o <<Quote>>

\* The parse loop of the current run has passed every file.
Aggregated == (pc = "parse" /\ fileIdx > Len(protoFiles)) \/ pc = "gen"

\* The keys the files before position n yield, file after file; a file that
\* fails to parse yields none.
RECURSIVE ExtractedBefore(_)
ExtractedBefore(n) ==
    IF n <= 1 THEN <<>>
    ELSE ExtractedBefore(n - 1)
         \o parseProto(sources[protoFiles[n - 1]], enumPrefix, enumSuffix).entries

\* C3: for every key of the list, generateTOML writes the existing catalog
\* value when the key has a non-empty one, otherwise the key's default
\* message when the message map has one, otherwise the empty string.
C3_Expected(existing, k) ==
    IF k \in DOMAIN existing /\ existing[k] # <<>> THEN existing[k]
    ELSE IF k \in DOMAIN allMessages THEN allMessages[k]
    ELSE <<>>

C3_MergePriority ==
    \A l \in genOK : \A existing \in {loadExistingTOML(start.catalogs[l])} :
        /\ Len(catalogs[l].lines) = 3 * Len(allEntries)
        /\ \A i \in 1..Len(allEntries) :
              catalogs[l].lines[3 * i - 1] = ValueLine(C3_Expected(existing, allEntries[i]))

\* C3 witness: one catalog was generated in which a key kept its existing
\* value, a key without one got its default message and a key with neither
\* got "".
C3_Witness ==
    \E l \in genOK :
        LET existing == loadExistingTOML(start.catalogs[l])
            line(k) == catalogs[l].lines[3 * Pos(allEntries, k) - 1] IN
        \E k1, k2, k3 \in Range(allEntries) :
            /\ MapGet(existing, k1) # <<>> /\ MapGet(allMessages, k1) # <<>>
            /\ MapGet(existing, k1) # MapGet(allMessages, k1)
            /\ line(k1) = ValueLine(existing[k1])
            /\ MapGet(existing, k2) = <<>> /\ MapGet(allMessages, k2) # <<>>
            /\ line(k2) = ValueLine(allMessages[k2])
            /\ MapGet(existing, k3) = <<>> /\ MapGet(allMessages, k3) = <<>>
            /\ line(k3) = ValueLine(<<>>)

\* C4: after a successful generateTOML the catalog is exactly one block per
\* key of the key list, in the order of the list: header, value line, blank
\* line; the keys it holds are the keys of the list, whatever the prior
\* file held and in whatever order.
C4_ExactlyTheKeyList ==
    \A l \in genOK :
        /\ catalogs[l].exists
        /\ Len(catalogs[l].lines) = 3 * Len(allEntries)
        /\ \A i \in 1..Len(allEntries) :
              /\ catalogs[l].lines[3 * i - 2] = HeaderLine(allEntries[i])
              /\ HasPrefix(catalogs[l].lines[3 * i - 1], OtherPrefix \o <<Quote>>)
              /\ HasSuffix(catalogs[l].lines[3 * i - 1], <<Quote>>)
              /\ catalogs[l].lines[3 * i] = <<>>
        /\ DOMAIN loadExistingTOML(catalogs[l]) = Range(allEntries)

\* C4 witness: a catalog was generated over a prior file that held a key
\* outside the list and two keys of the list in the opposite order.
C4_Witness ==
    \E l \in genOK :
        LET old == start.catalogs[l].lines IN
        /\ \E i \in 1..Len(old) : old[i] = HeaderLine(OrphanKey)
        /\ \E i, j \in 1..Len(old) : \E k1, k2 \in Range(allEntries) :
              /\ i < j
              /\ old[i] = HeaderLine(k1) /\ old[j] = HeaderLine(k2)
              /\ Pos(allEntries, k2) < Pos(allEntries, k1)
        /\ catalogs[l] # start.catalogs[l]

\* C5: the aggregated key list holds every extracted key exactly once, in
\* the order of the keys' first occurrences in the per-file lists
\* concatenated in file order (at every point of the parse loop, for the
\* files passed so far): each key's first occurrence comes before that of
\* the next key of the list.
C5_FirstSeenOrder ==
    pc \in {"parse", "gen"} =>
        \A all \in {ExtractedBefore(fileIdx)} :
        /\ NoRepeats(allEntries)
        /\ Range(allEntries) = Range(all)
        /\ seenEntries = Range(allEntries)
        /\ \A i \in 1..(Len(allEntries) - 1) :
              Pos(all, allEntries[i]) < Pos(all, allEntries[i + 1])

\* C5 witness: the loop is over; a key repeated within one file and a key
\* repeated across two files were extracted.
C5_Witness ==
    /\ Aggregated
    /\ Len(allEntries) >= 2
    /\ \E f \in 1..Len(protoFiles) :
          ~NoRepeats(parseProto(sources[protoFiles[f]], enumPrefix, enumSuffix).entries)
    /\ \E f, g \in 1..Len(protoFiles) :
          /\ f < g
          /\ Range(parseProto(sources[protoFiles[f]], enumPrefix, enumSuffix).entries)
               \cap Range(parseProto(sources[protoFiles[g]], enumPrefix, enumSuffix).entries)
               # {}

\* The run that ended last got as far as the generation loop.
RunGenerated == pc = "idle" /\ runs > 0 /\ outcome = "generated"

\* The catalog holds a block for key k (header, value line, blank line) whose
\* value line carries text t between its quotes, and no other header for k.
HasText(file, k, t) ==
    /\ \E i \in 1..(Len(file.lines) - 2) :
          /\ file.lines[i] = HeaderLine(k)
          /\ file.lines[i + 1] = ValueLine(t)
          /\ file.lines[i + 2] = <<>>
    /\ Cardinality({i \in 1..Len(file.lines) : file.lines[i] = HeaderLine(k)}) = 1

\* C1 (as claimed): a regeneration writes back, for every key of the key list,
\* exactly the text a translator had entered for it in the prior catalog. (An
\* empty value is no entered text: C3 gives it the default message.)
C1_HumanTextPreserved ==
    \A l \in genOK : \A k \in Range(allEntries) : \A t \in HumanTexts \ {<<>>} :
        HasText(start.catalogs[l], k, t) => HasText(catalogs[l], k, t)

\* C2 (as claimed): a second run over unchanged sources leaves every catalog
\* both runs generated line for line as the first run wrote it.
C2_SecondRunIdentical ==
    (RunGenerated /\ runs >= 2 /\ added = None) =>
        \A l \in genOK \cap prev[1].genOK : catalogs[l] = start.catalogs[l]

\* The validation blocks of a .proto file as written: the marker line, the
\* id line, the message line, the expression line, the closing line.
IsClose(line) ==
    HasPrefix(TrimSpace(line), CloseBracket) \/ HasPrefix(TrimSpace(line), CloseComma)

BlockAt(lines, p, k, m) ==
    /\ p + 4 <= Len(lines)
    /\ lines[p] = MarkerLine
    /\ lines[p + 1] = IdLine(k)
    /\ lines[p + 2] = MessageLine(m)
    /\ lines[p + 3] = ExpressionLine
    /\ IsClose(lines[p + 4])

SourceKeys == {KeyA, KeyB, KeyC}
SourceMessages == {MsgPlain, MsgEscaped}

\* The first file that yields key k.
C7_FirstFile(k) ==
    LET entriesOf(f) == parseProto(sources[f], enumPrefix, enumSuffix).entries IN
    CHOOSE g \in 1..Len(sources) :
        /\ k \in Range(entriesOf(g))
        /\ \A h \in 1..(g - 1) : k \notin Range(entriesOf(h))

\* Key k occurs first as the id of a validation block, not as an enum value
\* (the enum values of a file are extracted before its validation ids).
C7_FirstIsBlock(k) ==
    k \notin Range(EnumEntries(sources[C7_FirstFile(k)].enums, enumPrefix, enumSuffix))

\* The message of the first validation block with id k in the first file
\* that yields k.
C7_FirstMessage(k) ==
    LET lines == sources[C7_FirstFile(k)].lines
        first == CHOOSE p \in 1..Len(lines) :
                 /\ \E m \in SourceMessages : BlockAt(lines, p, k, m)
                 /\ \A q \in 1..(p - 1) : \A m \in SourceMessages : ~BlockAt(lines, q, k, m)
    IN CHOOSE m \in SourceMessages : BlockAt(lines, first, k, m)

\* C7 (as claimed): the default message of an aggregated key that occurs first
\* as a validation id is the message of that first occurrence; the message of
\* a later occurrence never replaces it.
C7_FirstMessageWins ==
    Aggregated =>
        \A k \in Range(allEntries) :
            C7_FirstIsBlock(k) => MapGet(allMessages, k) = C7_FirstMessage(k)

\* C10 (as claimed): every validation block with an id line and a message
\* line makes parseProto yield that id as a key with that message as its
\* default message.
C10_BlockYieldsIdAndMessage ==
    \A i \in 1..Len(lastParse) :
        LET r == lastParse[i].result
            lines == sources[lastParse[i].file].lines IN
        ~r.err =>
            \A p \in 1..Len(lines) : \A k \in SourceKeys : \A m \in SourceMessages :
                BlockAt(lines, p, k, m) =>
                    k \in Range(r.entries) /\ MapGet(r.messages, k) = m

\* The files that parse, in walk order, and main's aggregation over them.
IsParsed(f) == f.ok

RECURSIVE C8_RunOver(_, _)
C8_RunOver(files, agg) ==
    IF files = <<>> THEN agg
    ELSE LET r == parseProto(Head(files), enumPrefix, enumSuffix) IN
         C8_RunOver(Tail(files), AddEntries(agg, r.entries, r.messages))

\* C8: a file that fails to parse contributes nothing and stops nothing: the
\* aggregate is that of a run over the other files alone. A language whose
\* generateTOML fails stops nothing: the loop reaches every listed language,
\* and every language that did not fail holds the catalog generated from its
\* own prior catalog, as in a run without failures.
C8_SkipAndContinue ==
    /\ (pc = "parse" /\ fileIdx > Len(protoFiles)) =>
          [seenEntries |-> seenEntries, allEntries |-> allEntries,
           allMessages |-> allMessages] = C8_RunOver(SelectSeq(sources, IsParsed), EmptyAgg)
    /\ RunGenerated =>
          /\ genOK \cup genFailed = LangNames
          /\ genOK \cap genFailed = {}
          /\ \A l \in genOK :
                catalogs[l] = File(TOMLContent(allEntries, allMessages, start.catalogs[l]))

\* C8 witness: a run ended in which a file between two others failed to
\* parse, keys of both others were aggregated, the first language failed
\* and the second was generated.
C8_Witness ==
    /\ RunGenerated
    /\ \E f \in 2..(Len(sources) - 1) :
          /\ ~sources[f].ok
          /\ allEntries # <<>>
          /\ Range(parseProto(sources[f - 1], enumPrefix, enumSuffix).entries) # {}
          /\ Range(parseProto(sources[f + 1], enumPrefix, enumSuffix).entries)
                 \ Range(parseProto(sources[f - 1], enumPrefix, enumSuffix).entries) # {}
    /\ genFailed = {En}
    /\ genOK = {Zh}
    /\ catalogs[Zh] # start.catalogs[Zh]

\* C9: a run that finds no source file, or extracts no key, ends without
\* creating the output directory and with every catalog as it was.
C9_FatalTouchesNothing ==
    (pc = "idle" /\ runs > 0 /\ outcome \in {"no files", "no entries"}) =>
        /\ outDirExists = start.outDirExists
        /\ catalogs = start.catalogs

\* C9 witness: a run over files that all fail to parse ended with no key,
\* the output directory still missing; and one ended so with a catalog that
\* holds translations.
C9_Witness ==
    /\ pc = "idle" /\ runs > 0 /\ outcome = "no entries"
    /\ sources # <<>>
    /\ \A f \in 1..Len(sources) : ~sources[f].ok
    /\ \/ ~outDirExists
       \/ \E l \in LangNames : catalogs[l] = SomeCatalog

\* Two runs generated catalogs, and between them one enum value, NewKey, was
\* added to an enum: the second run has just ended.
C6_AfterAddition ==
    /\ RunGenerated
    /\ runs = 2
    /\ added # None
    /\ prev[1].outcome = "generated"

IsKnown(k) == k # NewKey

\* The new value was added as the last value of its enum.
C6_AddedLast ==
    \A i \in 1..Len(added) :
        LET fields == sources[added[i].file].enums[added[i].enum].fields IN
        fields[Len(fields)] = NewKey

====
